---- MODULE Spec2Model ----
(***************************************************************************)
(* A model of Single_Mutation/single_mutation.py: the FoldX mutation-scan  *)
(* pipeline (repair, mutation list, model building with renaming,          *)
(* stability with retries, delta ranking).                                 *)
(*                                                                         *)
(* Python strings are sequences of one-character strings, so formatting,   *)
(* splitting, globbing and the regular expressions are computed character  *)
(* by character.  The working directory is a function from file names to   *)
(* file contents.                                                          *)
(***************************************************************************)
EXTENDS Integers, Sequences, FiniteSets, TLC

VARIABLES
    fs,             \* the file system: file name -> content
    console,        \* what was printed or logged, in order
    tool_calls,     \* the foldx invocations made, in order: [cmd, pdb, rc]
    residues,       \* make_mutation_list: its argument
    mutations,      \* make_mutation_list: the local list `mutations`
    mut_ret,        \* make_mutation_list: "none", "returned" or "raised"
    names_ret,      \* get_mutation_names: "none" or "returned"
    mutation_names, \* get_mutation_names: the list it returns
    repaired_arg,   \* rename_pdb_files: argument repaired_pdb
    names_arg,      \* rename_pdb_files: argument mutation_names
    fs0,            \* rename_pdb_files: the file system when it was called
    pdb_files,      \* rename_pdb_files: the sorted glob result
    renames,        \* rename_pdb_files: the os.rename calls made, <<src, dst>>
    ren_ret,        \* rename_pdb_files: "none", "returned" or "warned"
    stab_pc,        \* run_foldx_stability: position in the function
    base_arg,       \* run_foldx_stability: argument base_pdb_name
    max_retries,    \* run_foldx_stability: argument max_retries
    matching_files, \* run_foldx_stability: the glob result
    file_i,         \* run_foldx_stability: index of the current pdb_file
    attempt,        \* run_foldx_stability: the inner loop's variable
    success,        \* run_foldx_stability: the local flag
    error_files,    \* run_foldx_stability: the local list
    stab_ret,       \* run_foldx_stability: "none", "True", "False" or "None"
    sleeps,         \* run_foldx_stability: number of time.sleep calls
    argv_pdb,       \* main: --pdb_file
    argv_residues,  \* main: --residues
    main_pc,        \* main: position in the function
    started,        \* main: the pipeline steps started, in order
    returned,       \* main: the pipeline steps that returned, in order
    exit_status,    \* the process's exit status, -1 while it runs
    sf_pc,          \* subtract_fields: position in the function
    file_pattern,   \* subtract_fields: its argument
    file2_list,     \* subtract_fields: the sorted glob result
    individual_lines, \* subtract_fields: the cleaned lines of the mutation list
    file2_i,        \* subtract_fields: index of the current file2
    results,        \* subtract_fields: the rows [individual_text, file2, result]
    groups,         \* subtract_fields: the dictionary num -> rows
    final_results,  \* subtract_fields: the ranked rows
    sf_ret          \* subtract_fields: "none", "returned" or "raised"

envVars  == <<fs, console, tool_calls>>
mutVars  == <<residues, mutations, mut_ret, names_ret, mutation_names>>
renVars  == <<repaired_arg, names_arg, fs0, pdb_files, renames, ren_ret>>
stabVars == <<stab_pc, base_arg, max_retries, matching_files, file_i, attempt,
              success, error_files, stab_ret, sleeps>>
mainVars == <<argv_pdb, argv_residues, main_pc, started, returned, exit_status>>
sfVars   == <<sf_pc, file_pattern, file2_list, individual_lines, file2_i, results,
              groups, final_results, sf_ret>>
vars     == <<envVars, mutVars, renVars, stabVars, mainVars, sfVars>>

-----------------------------------------------------------------------------
(* Bounds of the model.                                                    *)

\* longest residue list of which every ordering is tried
MaxResidues == 2
\* longest residue list made of one residue repeated
MaxRepeat == 19
\* longest list of mutation codes handed to rename_pdb_files
MaxNames == 3
\* largest max_retries handed to run_foldx_stability
MaxRetries == 3
\* largest number of residue specifiers on the command line
MaxArgs == 1
\* largest number of numbered structures BuildModel leaves
MaxGenerated == 1

-----------------------------------------------------------------------------
(* Strings.                                                                *)

Digits == {"0", "1", "2", "3", "4", "5", "6", "7", "8", "9"}

UpperLetters == {"A", "B", "C", "D", "E", "F", "G", "H", "I", "J", "K", "L", "M",
                 "N", "O", "P", "Q", "R", "S", "T", "U", "V", "W", "X", "Y", "Z"}

LowerLetters == {"a", "b", "c", "d", "e", "f", "g", "h", "i", "j", "k", "l", "m",
                 "n", "o", "p", "q", "r", "s", "t", "u", "v", "w", "x", "y", "z"}

\* str.isalpha() on the characters of the model
isalpha(s) == Len(s) >= 1 /\ \A i \in 1..Len(s) : s[i] \in UpperLetters \cup LowerLetters

\* the characters str.strip() removes
Whitespace == {" ", "\n", "\t", "\r"}

DigitVal(c) == CASE c = "0" -> 0 [] c = "1" -> 1 [] c = "2" -> 2 [] c = "3" -> 3
                 [] c = "4" -> 4 [] c = "5" -> 5 [] c = "6" -> 6 [] c = "7" -> 7
                 [] c = "8" -> 8 [] c = "9" -> 9

\* int(s) for a string of decimal digits
RECURSIVE int(_)
int(s) == IF s = <<>> THEN 0
          ELSE 10 * int(SubSeq(s, 1, Len(s) - 1)) + DigitVal(s[Len(s)])

StartsWith(s, p) == Len(s) >= Len(p) /\ SubSeq(s, 1, Len(p)) = p
EndsWith(s, p)   == Len(s) >= Len(p) /\ SubSeq(s, Len(s) - Len(p) + 1, Len(s)) = p

\* the concatenation of a sequence of sequences (by halves: the lists are long)
RECURSIVE Flatten(_)
Flatten(ss) ==
    IF Len(ss) = 0 THEN <<>>
    ELSE IF Len(ss) = 1 THEN ss[1]
    ELSE LET h == Len(ss) \div 2
         IN  Flatten(SubSeq(ss, 1, h)) \o Flatten(SubSeq(ss, h + 1, Len(ss)))

\* the members of the set S of integers within lo..hi, in ascending order
RECURSIVE Ascending(_, _, _)
Ascending(S, lo, hi) ==
    IF lo > hi THEN <<>>
    ELSE IF lo = hi THEN (IF lo \in S THEN <<lo>> ELSE <<>>)
    ELSE LET m == (lo + hi) \div 2
         IN  Ascending(S, lo, m) \o Ascending(S, m + 1, hi)

\* all sequences over S of length at most n
SeqsUpTo(S, n) == UNION {[1..k -> S] : k \in 0..n}

Repeat(x, n) == [i \in 1..n |-> x]

Range(s) == {s[i] : i \in 1..Len(s)}

-----------------------------------------------------------------------------
(* make_mutation_list                                                      *)

amino_acids == <<"A", "C", "D", "E", "F", "G", "H", "I", "K", "L",
                 "M", "N", "P", "Q", "R", "S", "T", "V", "W", "Y">>

individual_list == <<"i", "n", "d", "i", "v", "i", "d", "u", "a", "l", "_",
                     "l", "i", "s", "t", ".", "t", "x", "t">>

\* f"{wt}{chain}{pos}{aa};\n"
MutationLine(wt, chain, pos, aa) == wt \o chain \o pos \o <<aa>> \o <<";", "\n">>

\* the inner loop of make_mutation_list from amino_acids[k] on, for one residue
RECURSIVE ResidueLoop(_, _)
ResidueLoop(r, k) ==
    IF k > Len(amino_acids) THEN <<>>
    ELSE (IF <<amino_acids[k]>> # r[3]
          THEN <<MutationLine(r[3], r[1], r[2], amino_acids[k])>>
          ELSE <<>>)
         \o ResidueLoop(r, k + 1)

\* the outer loop: the list `mutations` for the residues (chain, pos, wt)
MutationList(rs) == Flatten([i \in 1..Len(rs) |-> ResidueLoop(rs[i], 1)])

\* the consistency check of line 46: TRUE when ValueError is raised
WrongCountOff(num_lines) == FALSE

WrongCount(num_lines) == num_lines % 19 # 0

\* open(name, "w") and write: the file is created or replaced
WriteFile(f, name, content) ==
    [n \in DOMAIN f \cup {name} |-> IF n = name THEN content ELSE f[n]]

-----------------------------------------------------------------------------
(* get_mutation_names                                                      *)

\* where the lines of the text end: at each newline and at the end of the text
LineEnds(s) == {i \in 1..Len(s) : s[i] = "\n" \/ i = Len(s)}

\* `for line in f`: the lines of the text, each with its newline
FileLines(s) ==
    LET ends == Ascending(LineEnds(s), 1, Len(s))
    IN  [k \in 1..Len(ends) |->
            SubSeq(s, IF k = 1 THEN 1 ELSE ends[k - 1] + 1, ends[k])]

\* s.rstrip(chars)
RECURSIVE rstrip(_, _)
rstrip(s, chars) ==
    IF s # <<>> /\ s[Len(s)] \in chars THEN rstrip(SubSeq(s, 1, Len(s) - 1), chars) ELSE s

RECURSIVE lstrip(_, _)
lstrip(s, chars) ==
    IF s # <<>> /\ Head(s) \in chars THEN lstrip(Tail(s), chars) ELSE s

\* s.strip()
strip(s) == rstrip(lstrip(s, Whitespace), Whitespace)

\* line 54 without the rstrip(';')
CleanLineKeepsSemicolon(line) == strip(line)

\* line.strip().rstrip(';')
CleanLine(line) == rstrip(strip(line), {";"})

\* the loop of get_mutation_names over the lines of the file
CleanedLines(ls) ==
    Flatten([i \in 1..Len(ls) |->
                IF CleanLine(ls[i]) # <<>> THEN <<CleanLine(ls[i])>> ELSE <<>>])

MutationNamesOf(text) == CleanedLines(FileLines(text))

-----------------------------------------------------------------------------
(* Paths, glob and file_key                                                *)

Ext_pdb == <<".", "p", "d", "b">>

\* the last index of character c in s, 0 when it does not occur
LastIndexOf(s, c) ==
    LET at == {i \in 1..Len(s) : s[i] = c}
    IN  IF at = {} THEN 0 ELSE CHOOSE i \in at : \A j \in at : j <= i

\* os.path.basename
basename(p) == SubSeq(p, LastIndexOf(p, "/") + 1, Len(p))

\* where os.path.splitext splits p: the index of the extension's dot, or
\* Len(p) + 1 when there is no extension (leading dots of the name do not count)
SplitAt(p) ==
    LET sep == LastIndexOf(p, "/")
        dot == LastIndexOf(p, ".")
    IN  IF dot > sep /\ \E k \in (sep + 1)..(dot - 1) : p[k] # "."
        THEN dot ELSE Len(p) + 1

\* os.path.splitext(p)[0] and os.path.splitext(p)[1]
splitext0(p) == SubSeq(p, 1, SplitAt(p) - 1)
splitext1(p) == SubSeq(p, SplitAt(p), Len(p))

\* fnmatch of name against the pattern f"{prefix}*{suffix}"
GlobMatch(name, prefix, suffix) ==
    /\ Len(name) >= Len(prefix) + Len(suffix)
    /\ StartsWith(name, prefix)
    /\ EndsWith(name, suffix)
    /\ \A k \in (Len(prefix) + 1)..(Len(name) - Len(suffix)) : name[k] # "/"

\* the orderings of a finite set
Orderings(S) ==
    {q \in [1..Cardinality(S) -> S] : \A i, j \in 1..Cardinality(S) : q[i] = q[j] => i = j}

\* glob.glob(f"{prefix}*{suffix}"): the matching names, in an order the
\* operating system chooses
glob(f, prefix, suffix) == Orderings({n \in DOMAIN f : GlobMatch(n, prefix, suffix)})

\* the number of digits s ends with
RECURSIVE TrailingDigits(_)
TrailingDigits(s) ==
    IF s # <<>> /\ s[Len(s)] \in Digits
    THEN 1 + TrailingDigits(SubSeq(s, 1, Len(s) - 1)) ELSE 0

\* file_key: re.search(r'_(\d+)\.pdb$', filename), the group as an int, else -1
file_key(filename) ==
    IF ~EndsWith(filename, Ext_pdb) THEN -1
    ELSE LET stem == SubSeq(filename, 1, Len(filename) - Len(Ext_pdb))
             d    == TrailingDigits(stem)
         IN  IF d >= 1 /\ Len(stem) > d /\ stem[Len(stem) - d] = "_"
             THEN int(SubSeq(stem, Len(stem) - d + 1, Len(stem)))
             ELSE -1

\* x put into the list l, sorted by file_key, behind every element that does
\* not come after it (sorted() is stable)
InsertByKey(l, x) ==
    LET k == Cardinality({i \in 1..Len(l) : file_key(l[i]) <= file_key(x)})
    IN  SubSeq(l, 1, k) \o <<x>> \o SubSeq(l, k + 1, Len(l))

\* sorted(l, key=file_key)
RECURSIVE sorted_by_file_key(_)
sorted_by_file_key(l) ==
    IF l = <<>> THEN <<>>
    ELSE InsertByKey(sorted_by_file_key(SubSeq(l, 1, Len(l) - 1)), l[Len(l)])

-----------------------------------------------------------------------------
(* rename_pdb_files                                                        *)

\* f"{base}_{mutation}.pdb"
new_name(base, mutation) == base \o <<"_">> \o mutation \o Ext_pdb

\* os.rename(src, dst) where src exists: dst is created or replaced
os_rename(f, src, dst) ==
    [n \in (DOMAIN f \ {src}) \cup {dst} |-> IF n = dst THEN f[src] ELSE f[n]]

\* the message of line 73
Warning == "Warning: PDB files and mutation names are not equal!"

\* the guard of line 72 with the comparison a one-sided check would make
CountMismatchFewer(files, names) == Len(files) < Len(names)

\* the guard of line 72
CountMismatch(files, names) == Len(files) # Len(names)

\* the loop of lines 75-78 from the i-th pair on; st is [fs, renames, raised]
RECURSIVE RenameLoop(_, _, _, _, _)
RenameLoop(st, files, names, base, i) ==
    IF i > Len(files) \/ i > Len(names) THEN st
    ELSE IF files[i] \notin DOMAIN st.fs THEN [st EXCEPT !.raised = TRUE]
    ELSE RenameLoop(
            [fs      |-> os_rename(st.fs, files[i], new_name(base, names[i])),
             renames |-> Append(st.renames, <<files[i], new_name(base, names[i])>>),
             raised  |-> FALSE],
            files, names, base, i + 1)

-----------------------------------------------------------------------------
(* The functions as actions.                                               *)

make_mutation_list ==
    /\ mut_ret = "none"
    /\ mutations' = MutationList(residues)
    /\ fs' = WriteFile(fs, individual_list, Flatten(mutations'))
    /\ IF WrongCount(Len(mutations'))
       THEN /\ mut_ret' = "raised"
            /\ console' = console
       ELSE /\ mut_ret' = "returned"
            /\ console' = Append(console, "Mutation list created")
    /\ UNCHANGED <<tool_calls, residues, names_ret, mutation_names>>
    /\ UNCHANGED <<renVars, stabVars, mainVars, sfVars>>

get_mutation_names ==
    /\ names_ret = "none"
    /\ individual_list \in DOMAIN fs
    /\ mutation_names' = MutationNamesOf(fs[individual_list])
    /\ names_ret' = "returned"
    /\ UNCHANGED <<envVars, residues, mutations, mut_ret>>
    /\ UNCHANGED <<renVars, stabVars, mainVars, sfVars>>

rename_pdb_files ==
    /\ ren_ret = "none"
    /\ \E g \in glob(fs, splitext0(repaired_arg) \o <<"_">>, Ext_pdb) :
         LET base  == splitext0(repaired_arg)
             files == sorted_by_file_key(g)
             st    == RenameLoop([fs |-> fs, renames |-> <<>>, raised |-> FALSE],
                                 files, names_arg, base, 1)
         IN  /\ pdb_files' = files
             /\ fs0' = fs
             /\ IF CountMismatch(files, names_arg)
                THEN /\ console' = Append(console, Warning)
                     /\ fs' = fs
                     /\ renames' = <<>>
                     /\ ren_ret' = "returned"
                ELSE /\ console' = console \o [i \in 1..Len(st.renames) |-> "Renaming"]
                     /\ fs' = st.fs
                     /\ renames' = st.renames
                     /\ ren_ret' = IF st.raised THEN "raised" ELSE "returned"
    /\ UNCHANGED <<tool_calls, repaired_arg, names_arg>>
    /\ UNCHANGED <<mutVars, stabVars, mainVars, sfVars>>

-----------------------------------------------------------------------------
(* run_foldx_command and the external tool                                 *)

\* what run_foldx_command(command) can do: return a result with returncode 0,
\* return the caught CalledProcessError (a returncode other than 0), or let
\* another exception of subprocess.run through (foldx cannot be started)
RunResults ==
    {[raised |-> FALSE, returncode |-> 0],
     [raised |-> FALSE, returncode |-> 1],
     [raised |-> TRUE,  returncode |-> 1]}

\* the record of one invocation
Call(cmd, pdb, res) == [cmd |-> cmd, pdb |-> pdb, raised |-> res.raised, returncode |-> res.returncode]

S_0_ST_fxout == <<"_", "0", "_", "S", "T", ".", "f", "x", "o", "u", "t">>

\* the file a successful Stability run on pdb_file leaves: <name>_0_ST.fxout
StabilityOutput(f, pdb_file) ==
    WriteFile(f, splitext0(pdb_file) \o S_0_ST_fxout, <<"t", " ", "1", "\n">>)

-----------------------------------------------------------------------------
(* run_foldx_stability                                                     *)

S_Repair == <<"_", "R", "e", "p", "a", "i", "r">>

\* lines 92-97: the glob and the early return
stab_glob ==
    /\ stab_pc = "start"
    /\ \E g \in glob(fs, base_arg \o S_Repair, Ext_pdb) :
         /\ matching_files' = g
         /\ IF g = <<>>
            THEN /\ console' = Append(console, "No files found matching the pattern")
                 /\ stab_ret' = "None"
                 /\ stab_pc' = "done"
            ELSE /\ console' = console
                 /\ stab_ret' = stab_ret
                 /\ stab_pc' = "for_file"
    /\ error_files' = <<>>
    /\ file_i' = 1
    /\ UNCHANGED <<fs, tool_calls, base_arg, max_retries, attempt, success, sleeps>>
    /\ UNCHANGED <<mutVars, renVars, mainVars, sfVars>>

\* lines 98-100: the head of the loop over the files
stab_for_file ==
    /\ stab_pc = "for_file"
    /\ IF file_i <= Len(matching_files)
       THEN /\ console' = Append(console, "Running stability calculation")
            /\ success' = FALSE
            /\ attempt' = 0
            /\ stab_pc' = "for_attempt"
       ELSE /\ stab_pc' = "report"
            /\ UNCHANGED <<console, success, attempt>>
    /\ UNCHANGED <<fs, tool_calls, base_arg, max_retries, matching_files, file_i,
                   error_files, stab_ret, sleeps>>
    /\ UNCHANGED <<mutVars, renVars, mainVars, sfVars>>

\* the head of the loop of line 101 with one attempt too many
MoreAttemptsOffByOne(a, n) == a <= n

\* the head of the loop of line 101: `for attempt in range(max_retries)`
MoreAttempts(a, n) == a < n

\* lines 101-112: one pass of the loop over the attempts
stab_attempt ==
    /\ stab_pc = "for_attempt"
    /\ IF ~MoreAttempts(attempt, max_retries)
       THEN /\ stab_pc' = "after_attempts"
            /\ UNCHANGED <<fs, console, tool_calls, attempt, success, stab_ret, sleeps>>
       ELSE \E res \in RunResults :
              /\ tool_calls' = Append(tool_calls, Call("Stability", matching_files[file_i], res))
              /\ IF res.raised
                 THEN /\ stab_ret' = "raised"
                      /\ stab_pc' = "done"
                      /\ UNCHANGED <<fs, console, attempt, success, sleeps>>
                 ELSE IF res.returncode = 0
                 THEN /\ fs' = StabilityOutput(fs, matching_files[file_i])
                      /\ console' = Append(console, "Stability calculation completed")
                      /\ success' = TRUE
                      /\ stab_pc' = "after_attempts"
                      /\ UNCHANGED <<attempt, stab_ret, sleeps>>
                 ELSE /\ console' = Append(console, "Error running stability calculation")
                                       \o (IF attempt < max_retries - 1 THEN <<"Retrying">> ELSE <<>>)
                      /\ sleeps' = IF attempt < max_retries - 1 THEN sleeps + 1 ELSE sleeps
                      /\ attempt' = attempt + 1
                      /\ stab_pc' = "for_attempt"
                      /\ UNCHANGED <<fs, success, stab_ret>>
    /\ UNCHANGED <<base_arg, max_retries, matching_files, file_i, error_files>>
    /\ UNCHANGED <<mutVars, renVars, mainVars, sfVars>>

\* lines 113-114: the file joins error_files unless an attempt succeeded
stab_after_attempts ==
    /\ stab_pc = "after_attempts"
    /\ error_files' = IF ~success THEN Append(error_files, matching_files[file_i])
                      ELSE error_files
    /\ file_i' = file_i + 1
    /\ stab_pc' = "for_file"
    /\ UNCHANGED <<envVars, base_arg, max_retries, matching_files, attempt, success,
                   stab_ret, sleeps>>
    /\ UNCHANGED <<mutVars, renVars, mainVars, sfVars>>

\* lines 115-122 with the outcome not looked at
StabilityResultAlwaysTrue(errs) == "True"

\* lines 115-122: what the function returns, given error_files
StabilityResult(errs) == IF errs # <<>> THEN "False" ELSE "True"

\* lines 115-122: the report and the return value
stab_report ==
    /\ stab_pc = "report"
    /\ console' = IF error_files # <<>>
                  THEN Append(console, "The following files failed stability calculation after retries:")
                       \o [i \in 1..Len(error_files) |-> "failed file"]
                  ELSE Append(console, "All stability calculations finished successfully")
    /\ stab_ret' = StabilityResult(error_files)
    /\ stab_pc' = "done"
    /\ UNCHANGED <<fs, tool_calls, base_arg, max_retries, matching_files, file_i,
                   attempt, success, error_files, sleeps>>
    /\ UNCHANGED <<mutVars, renVars, mainVars, sfVars>>

run_foldx_stability ==
    stab_glob \/ stab_for_file \/ stab_attempt \/ stab_after_attempts \/ stab_report

-----------------------------------------------------------------------------
(* main                                                                    *)

\* s.split(sep)
RECURSIVE split(_, _)
split(s, sep) ==
    LET at == {i \in 1..Len(s) : s[i] = sep}
    IN  IF at = {} THEN <<s>>
        ELSE LET p == CHOOSE i \in at : \A j \in at : i <= j
             IN  <<SubSeq(s, 1, p - 1)>> \o split(SubSeq(s, p + 1, Len(s)), sep)

\* lines 209-213: the specifier unpacks into three fields and the third is
\* one alphabetic character
ValidResidue(res) ==
    LET f == split(res, ":")
    IN  Len(f) = 3 /\ Len(f[3]) = 1 /\ isalpha(f[3])

\* line 200
base_pdb_name == splitext0(basename(argv_pdb))

\* the value repair_pdb returns (line 27)
repaired_pdb == base_pdb_name \o S_Repair \o Ext_pdb

\* line 201: no f"{base_pdb_name}.pdb" in the working directory
InputMissing == (base_pdb_name \o Ext_pdb) \notin DOMAIN fs

\* the pipeline with step 4 before step 3
StepAfterSwapped(step) ==
    CASE step = "repair"    -> "mutlist"
      [] step = "mutlist"   -> "stability"
      [] step = "stability" -> "build"
      [] step = "build"     -> "ddg"
      [] step = "ddg"       -> "finished"

\* lines 218-230: the step main goes to when a step has returned
StepAfter(step) ==
    CASE step = "repair"    -> "mutlist"
      [] step = "mutlist"   -> "build"
      [] step = "build"     -> "stability"
      [] step = "stability" -> "ddg"
      [] step = "ddg"       -> "finished"

\* a handler that lets the error pass
CaughtNever(ret) == FALSE

\* a handler that also takes a False returned by a step for an error
CaughtOrFailed(ret) == ret \in {"raised", "False"}

\* line 231: `except Exception` takes over when the step raised
Caught(ret) == ret = "raised"

\* line 236
Starting == "Starting FoldX mutation workflow"

\* lines 199-216: the checks before the pipeline (line 236 logs the start)
main_validate ==
    /\ main_pc = "validate"
    /\ IF InputMissing
       THEN /\ console' = console \o <<Starting, "Error: PDB file not found!">>
            /\ exit_status' = 1
            /\ main_pc' = "exited"
       ELSE IF splitext1(basename(argv_pdb)) # Ext_pdb
       THEN /\ console' = console \o <<Starting, "Error: This is not a .pdb file!">>
            /\ exit_status' = 1
            /\ main_pc' = "exited"
       ELSE IF \E i \in 1..Len(argv_residues) : ~ValidResidue(argv_residues[i])
       THEN /\ console' = console \o <<Starting, "Invalid residue format">>
            /\ exit_status' = 1
            /\ main_pc' = "exited"
       ELSE /\ console' = Append(console, Starting)
            /\ main_pc' = "repair"
            /\ exit_status' = exit_status
    /\ UNCHANGED <<fs, tool_calls, argv_pdb, argv_residues, started, returned>>
    /\ UNCHANGED <<mutVars, renVars, stabVars, sfVars>>

\* lines 25-30: repair_pdb goes on after RepairPDB unless run_foldx_command
\* let an exception through; a returncode other than 0 is only logged
RepairFailure(res) == res.raised

\* repair_pdb with the test of line 28 left out
NotGeneratedUnchecked(f, repaired_file) == FALSE

\* line 28: the repaired file does not exist, FileNotFoundError is raised
NotGenerated(f, repaired_file) == repaired_file \notin DOMAIN f

\* lines 218-222 and repair_pdb (lines 22-34): step 1.  RepairPDB may or may
\* not leave f"{base_pdb_name}_Repair.pdb", whatever its exit status.  The
\* test of line 220 repeats the one of line 28; its sys.exit(1) is no
\* Exception and passes the handler of line 231.
main_repair ==
    /\ main_pc = "repair"
    /\ started' = Append(started, "repair")
    /\ \E res \in RunResults : \E produced \in BOOLEAN :
         LET after == IF produced /\ ~res.raised
                      THEN WriteFile(fs, repaired_pdb, <<"repaired">>) ELSE fs
         IN  /\ tool_calls' = Append(tool_calls, Call("RepairPDB", base_pdb_name \o Ext_pdb, res))
             /\ fs' = after
             /\ IF RepairFailure(res) \/ NotGenerated(after, repaired_pdb)
                THEN /\ console' = Append(console, "Critical error")
                     /\ exit_status' = 1
                     /\ main_pc' = "exited"
                     /\ returned' = returned
                ELSE IF repaired_pdb \notin DOMAIN after
                THEN /\ console' = Append(console, "Repaired PDB file not found")
                     /\ exit_status' = 1
                     /\ main_pc' = "exited"
                     /\ returned' = Append(returned, "repair")
                ELSE /\ console' = Append(console, IF res.returncode # 0
                                                   THEN "RepairPDB failed"
                                                   ELSE "Repaired PDB")
                     /\ exit_status' = exit_status
                     /\ main_pc' = StepAfter("repair")
                     /\ returned' = Append(returned, "repair")
    /\ UNCHANGED <<argv_pdb, argv_residues>>
    /\ UNCHANGED <<mutVars, renVars, stabVars, sfVars>>

\* lines 223-224: step 2 calls make_mutation_list(residues)
main_mutlist ==
    /\ main_pc = "mutlist"
    /\ started' = Append(started, "mutlist")
    /\ residues' = [i \in 1..Len(argv_residues) |-> split(argv_residues[i], ":")]
    /\ mut_ret' = "none"
    /\ main_pc' = "in_mutlist"
    /\ UNCHANGED <<envVars, mutations, names_ret, mutation_names>>
    /\ UNCHANGED <<argv_pdb, argv_residues, returned, exit_status>>
    /\ UNCHANGED <<renVars, stabVars, sfVars>>

\* step 2 ends: a ValueError goes to the handler of lines 231-233
main_mutlist_end ==
    /\ main_pc = "in_mutlist"
    /\ mut_ret \in {"raised", "returned"}
    /\ IF Caught(mut_ret)
       THEN /\ console' = Append(console, "Critical error")
            /\ exit_status' = 1
            /\ main_pc' = "exited"
            /\ returned' = returned
       ELSE /\ main_pc' = StepAfter("mutlist")
            /\ returned' = Append(returned, "mutlist")
            /\ UNCHANGED <<console, exit_status>>
    /\ UNCHANGED <<fs, tool_calls, argv_pdb, argv_residues, started>>
    /\ UNCHANGED <<mutVars, renVars, stabVars, sfVars>>

DecimalDigit == <<"1", "2", "3", "4", "5", "6", "7", "8", "9">>

\* the numbered structures BuildModel leaves: f"{base}_Repair_{i}.pdb", i = 1..k
RECURSIVE BuildOutput(_, _)
BuildOutput(f, k) ==
    IF k = 0 THEN f
    ELSE WriteFile(BuildOutput(f, k - 1),
                   splitext0(repaired_pdb) \o <<"_", DecimalDigit[k]>> \o Ext_pdb,
                   <<"model ", DecimalDigit[k]>>)

\* lines 83-85: run_mutations goes on after BuildModel unless
\* run_foldx_command let an exception through; the returncode is not read
BuildFailure(res) == res.raised

\* lines 225-226 and run_mutations lines 82-86: step 3 up to the call of
\* get_mutation_names
main_build ==
    /\ main_pc = "build"
    /\ started' = Append(started, "build")
    /\ \E res \in RunResults : \E k \in 0..MaxGenerated :
         /\ tool_calls' = Append(tool_calls, Call("BuildModel", repaired_pdb, res))
         /\ fs' = IF res.raised THEN fs ELSE BuildOutput(fs, k)
         /\ IF BuildFailure(res)
            THEN /\ console' = Append(console, "Critical error")
                 /\ exit_status' = 1
                 /\ main_pc' = "exited"
                 /\ names_ret' = names_ret
            ELSE /\ console' = console \o <<"BuildModel stdout", "BuildModel stderr">>
                 /\ exit_status' = exit_status
                 /\ main_pc' = "in_build_names"
                 /\ names_ret' = "none"
    /\ UNCHANGED <<residues, mutations, mut_ret, mutation_names>>
    /\ UNCHANGED <<argv_pdb, argv_residues, returned>>
    /\ UNCHANGED <<renVars, stabVars, sfVars>>

\* run_mutations line 87: the call of rename_pdb_files
main_build_rename ==
    /\ main_pc = "in_build_names"
    /\ names_ret = "returned"
    /\ repaired_arg' = repaired_pdb
    /\ names_arg' = mutation_names
    /\ ren_ret' = "none"
    /\ main_pc' = "in_build_rename"
    /\ UNCHANGED <<fs0, pdb_files, renames>>
    /\ UNCHANGED <<envVars, mutVars, stabVars, sfVars>>
    /\ UNCHANGED <<argv_pdb, argv_residues, started, returned, exit_status>>

\* run_mutations line 88: step 3 ends
main_build_end ==
    /\ main_pc = "in_build_rename"
    /\ ren_ret \in {"raised", "returned"}
    /\ IF Caught(ren_ret)
       THEN /\ console' = Append(console, "Critical error")
            /\ exit_status' = 1
            /\ main_pc' = "exited"
            /\ returned' = returned
       ELSE /\ console' = Append(console, "Mutant Structures Generated")
            /\ main_pc' = StepAfter("build")
            /\ returned' = Append(returned, "build")
            /\ exit_status' = exit_status
    /\ UNCHANGED <<fs, tool_calls, argv_pdb, argv_residues, started>>
    /\ UNCHANGED <<mutVars, renVars, stabVars, sfVars>>

\* the default of max_retries (line 91)
DefaultMaxRetries == 3

\* lines 227-228: step 4 calls run_foldx_stability(base_pdb_name)
main_stability ==
    /\ main_pc = "stability"
    /\ started' = Append(started, "stability")
    /\ base_arg' = base_pdb_name
    /\ max_retries' = DefaultMaxRetries
    /\ stab_pc' = "start"
    /\ main_pc' = "in_stability"
    /\ UNCHANGED <<matching_files, file_i, attempt, success, error_files, stab_ret, sleeps>>
    /\ UNCHANGED <<envVars, mutVars, renVars, sfVars>>
    /\ UNCHANGED <<argv_pdb, argv_residues, returned, exit_status>>

\* step 4 ends: its return value is dropped (line 228)
main_stability_end ==
    /\ main_pc = "in_stability"
    /\ stab_pc = "done"
    /\ IF Caught(stab_ret)
       THEN /\ console' = Append(console, "Critical error")
            /\ exit_status' = 1
            /\ main_pc' = "exited"
            /\ returned' = returned
       ELSE /\ main_pc' = StepAfter("stability")
            /\ returned' = Append(returned, "stability")
            /\ UNCHANGED <<console, exit_status>>
    /\ UNCHANGED <<fs, tool_calls, argv_pdb, argv_residues, started>>
    /\ UNCHANGED <<mutVars, renVars, stabVars, sfVars>>

\* the characters of the model in the order of their code points
CodePoints ==
    <<"\t", "\n", "\r", " ", ".", "/", "0", "1", "2", "3", "4", "5", "6", "7", "8", "9",
      ":", ";", "A", "B", "C", "D", "E", "F", "G", "H", "I", "J", "K", "L", "M", "N",
      "O", "P", "Q", "R", "S", "T", "U", "V", "W", "X", "Y", "Z", "_", "a", "b", "c",
      "d", "e", "f", "g", "h", "i", "j", "k", "l", "m", "n", "o", "p", "q", "r", "s",
      "t", "u", "v", "w", "x", "y", "z">>

ord(c) == CHOOSE i \in 1..Len(CodePoints) : CodePoints[i] = c

\* a < b for Python strings
RECURSIVE StrLess(_, _)
StrLess(a, b) ==
    IF b = <<>> THEN FALSE
    ELSE IF a = <<>> THEN TRUE
    ELSE IF Head(a) = Head(b) THEN StrLess(Tail(a), Tail(b))
    ELSE ord(Head(a)) < ord(Head(b))

\* sorted(S) for a set of distinct strings
sorted(S) ==
    CHOOSE q \in Orderings(S) : \A i \in 1..(Len(q) - 1) : StrLess(q[i], q[i + 1])

\* re.search(r'([A-Z]{2}\d{1,3}[A-Z])', name) finds a match
HasMutationCode(name) ==
    \E i \in 1..Len(name) : \E d \in 1..3 :
        /\ i + 2 + d <= Len(name)
        /\ name[i] \in UpperLetters
        /\ name[i + 1] \in UpperLetters
        /\ \A k \in 1..d : name[i + 1 + k] \in Digits
        /\ name[i + 2 + d] \in UpperLetters

S_Repair_0_ST_fxout == S_Repair \o S_0_ST_fxout

ddgcalcoutput == <<"d", "d", "g", "c", "a", "l", "c", "o", "u", "t", "p", "u", "t",
                   ".", "t", "x", "t">>

\* the file2 of lines 143-152 that are opened together with file1
OpenedFiles(listed) ==
    {i \in 1..Len(listed) :
        /\ ~EndsWith(listed[i], <<"R", "e", "p", "a", "i", "r">> \o S_0_ST_fxout)
        /\ HasMutationCode(listed[i])}

\* lines 229-230 and subtract_fields (lines 124-193): step 5.  open(file1)
\* raises FileNotFoundError when the reference file is missing.  When step 5
\* returns, main returns and the script ends with status 0 (lines 237-238).
main_ddg ==
    /\ main_pc = "ddg"
    /\ started' = Append(started, "ddg")
    /\ LET file1      == base_pdb_name \o S_Repair_0_ST_fxout
           listed == sorted({n \in DOMAIN fs :
                             GlobMatch(n, base_pdb_name \o S_Repair \o <<"_">>, S_0_ST_fxout)})
           opened     == OpenedFiles(listed)
           first      == CHOOSE i \in opened : \A j \in opened : i <= j
           skipped(n) == {i \in 1..n : i \notin opened
                              /\ ~EndsWith(listed[i], <<"R", "e", "p", "a", "i", "r">> \o S_0_ST_fxout)}
           warn(n)    == [i \in 1..Cardinality(skipped(n)) |-> "Warning: Could not extract mutation code"]
       IN  IF listed = <<>>
           THEN /\ console' = console \o <<"No files found matching the pattern",
                                             "All calculations finished">>
                /\ fs' = fs
                /\ main_pc' = StepAfter("ddg")
                /\ returned' = Append(returned, "ddg")
                /\ exit_status' = 0
           ELSE IF individual_list \notin DOMAIN fs \/ (opened # {} /\ file1 \notin DOMAIN fs)
           THEN /\ console' = console
                       \o (IF individual_list \in DOMAIN fs THEN warn(first - 1) ELSE <<>>)
                       \o <<"Critical error">>
                /\ fs' = fs
                /\ main_pc' = "exited"
                /\ returned' = returned
                /\ exit_status' = 1
           ELSE /\ console' = console \o warn(Len(listed))
                       \o [i \in 1..Cardinality(opened) |-> "Processed"]
                       \o <<"All results written", "DDG calculations completed",
                            "All calculations finished">>
                /\ fs' = WriteFile(fs, ddgcalcoutput, <<"ranked table">>)
                /\ main_pc' = StepAfter("ddg")
                /\ returned' = Append(returned, "ddg")
                /\ exit_status' = 0
    /\ UNCHANGED <<tool_calls, argv_pdb, argv_residues>>
    /\ UNCHANGED <<mutVars, renVars, stabVars, sfVars>>

main ==
    \/ main_validate
    \/ main_repair
    \/ main_mutlist \/ main_mutlist_end
    \/ main_build \/ main_build_rename \/ main_build_end
    \/ main_stability \/ main_stability_end
    \/ main_ddg

-----------------------------------------------------------------------------
(* subtract_fields: the values                                             *)

\* s.split(): the maximal runs of characters that are not whitespace
RECURSIVE split_ws(_)
split_ws(s) ==
    LET t == lstrip(s, Whitespace)
    IN  IF t = <<>> THEN <<>>
        ELSE LET ws == {i \in 1..Len(t) : t[i] \in Whitespace}
                 e  == IF ws = {} THEN Len(t) + 1
                       ELSE CHOOSE i \in ws : \A j \in ws : i <= j
             IN  <<SubSeq(t, 1, e - 1)>> \o split_ws(SubSeq(t, e, Len(t)))

\* A float is a record: nan tells a NaN from a number, and v is the number
\* counted in tenths (the numbers of the model have one fractional digit).
NaN == [nan |-> TRUE, v |-> 0]
Num(n) == [nan |-> FALSE, v |-> n]

IsDigits(s) == s # <<>> /\ \A i \in 1..Len(s) : s[i] \in Digits

\* the text without a leading sign
Unsigned(s) == IF s # <<>> /\ Head(s) \in {"+", "-"} THEN Tail(s) ELSE s

\* float(s) does not raise ValueError: s is "nan", or a decimal numeral with
\* an optional sign and at most one fractional digit
float_ok(s) ==
    LET u   == Unsigned(s)
        dot == LastIndexOf(u, ".")
        ip  == IF dot = 0 THEN u ELSE SubSeq(u, 1, dot - 1)
        fp  == IF dot = 0 THEN <<>> ELSE SubSeq(u, dot + 1, Len(u))
    IN  \/ u = <<"n", "a", "n">>
        \/ /\ ip \o fp # <<>>
           /\ ip = <<>> \/ IsDigits(ip)
           /\ fp = <<>> \/ (IsDigits(fp) /\ Len(fp) = 1)

\* float(s) for a text with float_ok(s)
float(s) ==
    LET u    == Unsigned(s)
        dot  == LastIndexOf(u, ".")
        ip   == IF dot = 0 THEN u ELSE SubSeq(u, 1, dot - 1)
        fp   == IF dot = 0 THEN <<>> ELSE SubSeq(u, dot + 1, Len(u))
        sign == IF Head(s) = "-" THEN -1 ELSE 1
    IN  IF u = <<"n", "a", "n">> THEN NaN
        ELSE Num(sign * (10 * int(ip) + int(fp)))

\* -a and a < b on floats: a comparison with NaN is false
Negative(a) == IF a.nan THEN NaN ELSE Num(0 - a.v)
Less(a, b) == ~a.nan /\ ~b.nan /\ a.v < b.v

\* line 162 with the operands the other way round
SubtractSwapped(value2, value1) ==
    IF value1.nan \/ value2.nan THEN NaN ELSE Num(value1.v - value2.v)

\* line 162 with the distance in place of the difference
SubtractAbs(value2, value1) ==
    IF value1.nan \/ value2.nan THEN NaN
    ELSE Num(IF value2.v >= value1.v THEN value2.v - value1.v ELSE value1.v - value2.v)

\* line 162: result = value2 - value1
Subtract(value2, value1) ==
    IF value1.nan \/ value2.nan THEN NaN ELSE Num(value2.v - value1.v)

-----------------------------------------------------------------------------
(* subtract_fields: the loops                                              *)

Repair_0_ST_fxout == <<"R", "e", "p", "a", "i", "r">> \o S_0_ST_fxout

\* where r'([A-Z]{2}\d{1,3}[A-Z])' matches in name: <<start, number of digits>>
CodeMatches(name) ==
    {m \in (1..Len(name)) \X (1..3) :
        /\ m[1] + 2 + m[2] <= Len(name)
        /\ name[m[1]] \in UpperLetters
        /\ name[m[1] + 1] \in UpperLetters
        /\ \A k \in 1..m[2] : name[m[1] + 1 + k] \in Digits
        /\ name[m[1] + 2 + m[2]] \in UpperLetters}

\* line 150: match.group(1) of the leftmost match
mutation_code(name) ==
    LET m == CHOOSE a \in CodeMatches(name) : \A b \in CodeMatches(name) : a[1] <= b[1]
    IN  SubSeq(name, m[1], m[1] + 2 + m[2])

\* lines 140-142 and 151: mutation_lookup maps every line of the list to
\* itself, so mutation_lookup.get(code, code) is the code either way
individual_text(lookup, code) == IF code \in lookup THEN code ELSE code

InsufficientFields == "Skipping line due to insufficient fields"
NonNumeric == "Skipping line due to non-numeric value"
NoMutationCode == "Warning: Could not extract mutation code from filename"
NoNumber == "Warning: Could not extract number from mutation - using 0"
Processed == "Processed"

\* the guard of line 156 asking for both lines to be short
TooFewFieldsBoth(fields1, fields2) == Len(fields1) < 2 /\ Len(fields2) < 2

\* the guard of line 156
TooFewFields(fields1, fields2) == Len(fields1) < 2 \/ Len(fields2) < 2

\* lines 153-165 from the i-th pair of lines on: the rows appended, the
\* messages printed, and whether an exception other than ValueError left the
\* loop (fields[1] of a line with one field raises IndexError)
RECURSIVE PairLoop(_, _, _, _, _)
PairLoop(text, file2, lines1, lines2, i) ==
    IF i > Len(lines1) \/ i > Len(lines2)
    THEN [rows |-> <<>>, printed |-> <<>>, raised |-> FALSE]
    ELSE LET fields1 == split_ws(strip(lines1[i]))
             fields2 == split_ws(strip(lines2[i]))
             rest    == PairLoop(text, file2, lines1, lines2, i + 1)
         IN  IF TooFewFields(fields1, fields2)
             THEN [rest EXCEPT !.printed = <<InsufficientFields>> \o @]
             ELSE IF Len(fields1) < 2 \/ Len(fields2) < 2
             THEN [rows |-> <<>>, printed |-> <<>>, raised |-> TRUE]
             ELSE IF ~float_ok(fields1[2]) \/ ~float_ok(fields2[2])
             THEN [rest EXCEPT !.printed = <<NonNumeric>> \o @]
             ELSE [rest EXCEPT !.rows =
                      << <<text, file2, Subtract(float(fields2[2]), float(fields1[2]))>> >> \o @]

\* what '^...$' is matched against: $ also matches before a newline ending s
BeforeFinalNewline(s) ==
    IF s # <<>> /\ s[Len(s)] = "\n" THEN SubSeq(s, 1, Len(s) - 1) ELSE s

\* the group regular expression r'^([A-Z]{2})(\d{1,3})([A-Z])$' matches s
GroupMatch(s) ==
    LET t == BeforeFinalNewline(s)
    IN  /\ Len(t) \in 4..6
        /\ t[1] \in UpperLetters /\ t[2] \in UpperLetters
        /\ IsDigits(SubSeq(t, 3, Len(t) - 1))
        /\ t[Len(t)] \in UpperLetters

\* lines 171-177 with every row in group 0
GroupOfZero(mutation) == 0

\* lines 171-177: the key of the group the row goes to, int(match.group(2))
\* or 0
GroupOf(mutation) ==
    IF GroupMatch(mutation)
    THEN int(SubSeq(BeforeFinalNewline(mutation), 3, Len(BeforeFinalNewline(mutation)) - 1))
    ELSE 0

\* lines 168-177: the dictionary groups, every list in the order of results
Grouped(rows) ==
    [num \in {GroupOf(rows[i][1]) : i \in 1..Len(rows)} |->
        Flatten([i \in 1..Len(rows) |->
                    IF GroupOf(rows[i][1]) = num THEN <<rows[i]>> ELSE <<>>])]

\* the sort key with the sign left out
SortKeyAscending(row) == row[3]

\* line 181: key=lambda x: -x[2]
SortKey(row) == Negative(row[3])

Reverse(l) == [i \in 1..Len(l) |-> l[Len(l) + 1 - i]]

\* list.sort, count_run: the length of the run the list starts with (a
\* strictly descending run, else a run that never descends), Len(l) >= 2
CountRun(l) ==
    LET desc    == Less(SortKey(l[2]), SortKey(l[1]))
        goes(j) == Less(SortKey(l[j]), SortKey(l[j - 1])) <=> desc
    IN  CHOOSE n \in 2..Len(l) :
            /\ \A j \in 3..n : goes(j)
            /\ n = Len(l) \/ ~goes(n + 1)

\* list.sort, binarysort: where the pivot goes among l[lft..rgt-1]
RECURSIVE Bisect(_, _, _, _)
Bisect(l, pivot, lft, rgt) ==
    IF lft >= rgt THEN lft
    ELSE LET p == lft + (rgt - lft) \div 2
         IN  IF Less(SortKey(pivot), SortKey(l[p]))
             THEN Bisect(l, pivot, lft, p)
             ELSE Bisect(l, pivot, p + 1, rgt)

\* list.sort, binarysort: l[1..start-1] is sorted, the others are inserted
RECURSIVE binarysort(_, _)
binarysort(l, start) ==
    IF start > Len(l) THEN l
    ELSE LET pos == Bisect(l, l[start], 1, start)
         IN  binarysort(SubSeq(l, 1, pos - 1) \o <<l[start]>> \o SubSeq(l, pos, start - 1)
                            \o SubSeq(l, start + 1, Len(l)),
                        start + 1)

\* sorted(group_rows, key=lambda x: -x[2]) as CPython sorts a short list:
\* the first run, reversed when it descends, then binary insertion
sorted_by_delta(l) ==
    IF Len(l) < 2 THEN l
    ELSE LET n   == CountRun(l)
             run == SubSeq(l, 1, n)
         IN  binarysort((IF Less(SortKey(l[2]), SortKey(l[1])) THEN Reverse(run) ELSE run)
                            \o SubSeq(l, n + 1, Len(l)),
                        n + 1)

\* lines 178-182: the groups by ascending key, each sorted
Ranked(g) ==
    LET nums == Ascending(DOMAIN g, 0, 999)
    IN  Flatten([k \in 1..Len(nums) |-> sorted_by_delta(g[nums[k]])])

-----------------------------------------------------------------------------
(* subtract_fields                                                         *)

\* lines 133-137: the lines of the list that are not blank, cleaned
IndividualLines(text) ==
    LET ls == FileLines(text)
    IN  Flatten([i \in 1..Len(ls) |->
                    IF strip(ls[i]) # <<>> THEN <<CleanLine(ls[i])>> ELSE <<>>])

DigitChars == <<"0", "1", "2", "3", "4", "5", "6", "7", "8", "9">>

\* str(n) for a natural number
RECURSIVE str(_)
str(n) == IF n < 10 THEN <<DigitChars[n + 1]>>
          ELSE str(n \div 10) \o <<DigitChars[(n % 10) + 1]>>

\* f"{x:.4f}" for a float of the model
Format4f(x) ==
    IF x.nan THEN <<"n", "a", "n">>
    ELSE LET a == IF x.v < 0 THEN 0 - x.v ELSE x.v
         IN  (IF x.v < 0 THEN <<"-">> ELSE <<>>)
                 \o str(a \div 10) \o <<".", DigitChars[(a % 10) + 1], "0", "0", "0">>

\* line 183: the cells of the table written to the output file (the layout
\* tabulate gives them is left out)
formatted_results(rows) ==
    [i \in 1..Len(rows) |-> <<rows[i][1], rows[i][2], Format4f(rows[i][3])>>]

\* lines 125-131: the glob and the early return
sf_glob ==
    /\ sf_pc = "start"
    /\ file2_list' = sorted({n \in DOMAIN fs :
                         GlobMatch(n, file_pattern \o S_Repair \o <<"_">>, S_0_ST_fxout)})
    /\ IF file2_list' = <<>>
       THEN /\ console' = Append(console, "No files found matching the pattern")
            /\ sf_ret' = "returned"
            /\ sf_pc' = "done"
       ELSE /\ console' = console
            /\ sf_ret' = sf_ret
            /\ sf_pc' = "read_list"
    /\ UNCHANGED <<fs, tool_calls, file_pattern, individual_lines, file2_i, results,
                   groups, final_results>>
    /\ UNCHANGED <<mutVars, renVars, stabVars, mainVars>>

\* lines 132-142: the mutation list is read; open() raises when it is missing
sf_read_list ==
    /\ sf_pc = "read_list"
    /\ IF individual_list \notin DOMAIN fs
       THEN /\ sf_ret' = "raised"
            /\ sf_pc' = "done"
            /\ UNCHANGED <<individual_lines, results, file2_i>>
       ELSE /\ individual_lines' = IndividualLines(fs[individual_list])
            /\ results' = <<>>
            /\ file2_i' = 1
            /\ sf_ret' = sf_ret
            /\ sf_pc' = "for_file"
    /\ UNCHANGED <<envVars, file_pattern, file2_list, groups, final_results>>
    /\ UNCHANGED <<mutVars, renVars, stabVars, mainVars>>

\* lines 143-166: one pass of the loop over file2_list
sf_for_file ==
    /\ sf_pc = "for_file"
    /\ IF file2_i > Len(file2_list)
       THEN /\ sf_pc' = "group"
            /\ UNCHANGED <<console, results, file2_i, sf_ret>>
       ELSE LET file1 == file_pattern \o S_Repair_0_ST_fxout
                file2 == file2_list[file2_i]
            IN  IF EndsWith(file2, Repair_0_ST_fxout)
                THEN /\ file2_i' = file2_i + 1
                     /\ UNCHANGED <<console, results, sf_pc, sf_ret>>
                ELSE IF ~HasMutationCode(file2)
                THEN /\ console' = Append(console, NoMutationCode)
                     /\ file2_i' = file2_i + 1
                     /\ UNCHANGED <<results, sf_pc, sf_ret>>
                ELSE IF file1 \notin DOMAIN fs \/ file2 \notin DOMAIN fs
                THEN /\ sf_ret' = "raised"
                     /\ sf_pc' = "done"
                     /\ UNCHANGED <<console, results, file2_i>>
                ELSE LET out == PairLoop(individual_text(Range(individual_lines),
                                                         mutation_code(file2)),
                                         file2, FileLines(fs[file1]), FileLines(fs[file2]), 1)
                     IN  /\ results' = results \o out.rows
                         /\ IF out.raised
                            THEN /\ console' = console \o out.printed
                                 /\ sf_ret' = "raised"
                                 /\ sf_pc' = "done"
                                 /\ file2_i' = file2_i
                            ELSE /\ console' = console \o out.printed \o <<Processed>>
                                 /\ file2_i' = file2_i + 1
                                 /\ UNCHANGED <<sf_pc, sf_ret>>
    /\ UNCHANGED <<fs, tool_calls, file_pattern, file2_list, individual_lines, groups,
                   final_results>>
    /\ UNCHANGED <<mutVars, renVars, stabVars, mainVars>>

\* lines 168-177: the rows go to their groups
sf_group ==
    /\ sf_pc = "group"
    /\ groups' = Grouped(results)
    /\ console' = console \o Flatten([i \in 1..Len(results) |->
                     IF GroupMatch(results[i][1]) THEN <<>> ELSE <<NoNumber>>])
    /\ sf_pc' = "rank"
    /\ UNCHANGED <<fs, tool_calls, file_pattern, file2_list, individual_lines, file2_i,
                   results, final_results, sf_ret>>
    /\ UNCHANGED <<mutVars, renVars, stabVars, mainVars>>

\* lines 178-193: the ranking and the output file
sf_rank ==
    /\ sf_pc = "rank"
    /\ final_results' = Ranked(groups)
    /\ fs' = WriteFile(fs, ddgcalcoutput, formatted_results(final_results'))
    /\ console' = console \o <<"All results written", "DDG calculations completed">>
    /\ sf_ret' = "returned"
    /\ sf_pc' = "done"
    /\ UNCHANGED <<tool_calls, file_pattern, file2_list, individual_lines, file2_i,
                   results, groups>>
    /\ UNCHANGED <<mutVars, renVars, stabVars, mainVars>>

subtract_fields == sf_glob \/ sf_read_list \/ sf_for_file \/ sf_group \/ sf_rank

-----------------------------------------------------------------------------
(* Idle values of the parts a specification does not run.                  *)

MutIdle ==
    /\ residues = <<>> /\ mutations = <<>> /\ mut_ret = "idle"
    /\ names_ret = "idle" /\ mutation_names = <<>>

RenIdle ==
    /\ repaired_arg = <<>> /\ names_arg = <<>> /\ fs0 = <<>>
    /\ pdb_files = <<>> /\ renames = <<>> /\ ren_ret = "idle"

StabIdle ==
    /\ stab_pc = "idle" /\ base_arg = <<>> /\ max_retries = 0
    /\ matching_files = <<>> /\ file_i = 0 /\ attempt = 0 /\ success = FALSE
    /\ error_files = <<>> /\ stab_ret = "none" /\ sleeps = 0

MainIdle ==
    /\ argv_pdb = <<>> /\ argv_residues = <<>> /\ main_pc = "idle"
    /\ started = <<>> /\ returned = <<>> /\ exit_status = -1

SfIdle ==
    /\ sf_pc = "idle" /\ file_pattern = <<>> /\ file2_list = <<>>
    /\ individual_lines = <<>> /\ file2_i = 0 /\ results = <<>>
    /\ groups = <<>> /\ final_results = <<>> /\ sf_ret = "none"

-----------------------------------------------------------------------------
(* SpecMut: make_mutation_list and get_mutation_names on their own.        *)

Chains    == {<<"A">>}
Positions == {<<"7">>, <<"4", "2">>}
WildTypes == {<<"E">>, <<"A">>, <<"X">>}
Residues  == {<<c, p, w>> : c \in Chains, p \in Positions, w \in WildTypes}

ResidueInputs ==
    SeqsUpTo(Residues, MaxResidues)
        \cup {Repeat(r, n) : r \in Residues, n \in 1..MaxRepeat}

InitMut ==
    /\ fs = <<>> /\ console = <<>> /\ tool_calls = <<>>
    /\ residues \in ResidueInputs
    /\ mutations = <<>> /\ mut_ret = "none"
    /\ names_ret = "none" /\ mutation_names = <<>>
    /\ RenIdle /\ StabIdle /\ MainIdle /\ SfIdle

NextMut == make_mutation_list \/ get_mutation_names

SpecMut == InitMut /\ [][NextMut]_vars

-----------------------------------------------------------------------------
(* Claims about make_mutation_list, checked under SpecMut.                 *)

\* the lines of the written mutation list
ListLines == FileLines(fs[individual_list])

\* the substituted letter of a line "<wt><chain><pos><aa>;\n"
SubstitutedLetter(line) == <<line[Len(line) - 2]>>

\* C1: whenever make_mutation_list returns normally, the written list has
\* exactly 19 lines per residue, and no line of a residue substitutes the
\* wild-type letter of that residue.
C1_NineteenPerResidue ==
    mut_ret = "returned" =>
        LET lines == ListLines
        IN  /\ Len(lines) = 19 * Len(residues)
            /\ \A i \in 1..Len(residues) : \A j \in 1..19 :
                   SubstitutedLetter(lines[19 * (i - 1) + j]) # residues[i][3]

\* C10: make_mutation_list raises exactly when the number of generated
\* lines is not divisible by 19, and returns normally exactly when it is.
C10_RaisesIffNotDivisible ==
    mut_ret \in {"raised", "returned"} =>
        (mut_ret = "raised" <=> Len(mutations) % 19 # 0)

\* a residue whose wild-type is no letter of the alphabet gave 20 lines, and
\* the call raised
C10_Witness ==
    /\ mut_ret = "raised"
    /\ Len(residues) = 1
    /\ Len(mutations) = 20

\* the letters of the alphabet other than the wild-type, in alphabet order
Substitutes(wt) == SelectSeq(amino_acids, LAMBDA aa : <<aa>> # wt)

\* the codes <wildtype><chain><position><mutant> of the residues: residue by
\* residue in the order given, the substituted letters in alphabet order
ExpectedNames ==
    Flatten([i \in 1..Len(residues) |->
                [k \in 1..Len(Substitutes(residues[i][3])) |->
                    residues[i][3] \o residues[i][1] \o residues[i][2]
                        \o <<Substitutes(residues[i][3])[k]>>]])

\* C15: after make_mutation_list has returned, get_mutation_names returns
\* one code per written line, each the line without its semicolon and
\* newline, and the codes are those of the residues in the order of the
\* residues and, within a residue, of the alphabet.
C15_RoundTrip ==
    (mut_ret = "returned" /\ names_ret = "returned") =>
        /\ Len(mutation_names) = Len(mutations)
        /\ \A i \in 1..Len(mutation_names) :
               mutations[i] = mutation_names[i] \o <<";", "\n">>
        /\ mutation_names = ExpectedNames

\* two different residues, and the 38 codes were read back
C15_Witness ==
    /\ mut_ret = "returned" /\ names_ret = "returned"
    /\ Len(residues) = 2
    /\ residues[1] # residues[2]
    /\ Len(mutation_names) = 38

-----------------------------------------------------------------------------
(* SpecRename: rename_pdb_files on its own.                                *)

x_Repair == <<"x", "_", "R", "e", "p", "a", "i", "r">>

\* names a directory may hold: BuildModel outputs 1, 2 and 10, a file with
\* the key of output 1, a file without a number, and the repaired structure
FileNames ==
    {x_Repair \o sfx \o Ext_pdb :
        sfx \in {<<"_", "1">>, <<"_", "2">>, <<"_", "1", "0">>, <<"_", "0", "1">>,
                 <<"_", "W", "T">>, <<>>}}

\* a directory holding the names S, every file with a content of its own
Directory(S) == [n \in S |-> <<"content of ">> \o n]

Codes == {<<"E", "A", "7", "A">>, <<"E", "A", "7", "C">>}

InitRename ==
    /\ fs \in {Directory(S) : S \in SUBSET FileNames}
    /\ console = <<>> /\ tool_calls = <<>>
    /\ repaired_arg = x_Repair \o Ext_pdb
    /\ names_arg \in SeqsUpTo(Codes, MaxNames)
    /\ fs0 = <<>> /\ pdb_files = <<>> /\ renames = <<>> /\ ren_ret = "none"
    /\ MutIdle /\ StabIdle /\ MainIdle /\ SfIdle

NextRename == rename_pdb_files

SpecRename == InitRename /\ [][NextRename]_vars

-----------------------------------------------------------------------------
(* Claims about rename_pdb_files, checked under SpecRename.                *)

\* the generated files: what the glob of line 70 matched when the call began
GeneratedFiles ==
    {n \in DOMAIN fs0 : GlobMatch(n, splitext0(repaired_arg) \o <<"_">>, Ext_pdb)}

\* C2: with as many generated files as mutation codes, the i-th file in
\* ascending order of its numeric suffix is renamed to <base>_<i-th code>.pdb,
\* no two files are renamed to the same name, and afterwards every generated
\* file is found under the name of its mutation code.
C2_RenameIsBijection ==
    (ren_ret # "none" /\ Len(pdb_files) = Len(names_arg)) =>
        /\ ren_ret = "returned"
        /\ Range(pdb_files) = GeneratedFiles
        /\ Len(pdb_files) = Cardinality(GeneratedFiles)
        /\ \A i \in 1..(Len(pdb_files) - 1) :
               file_key(pdb_files[i]) <= file_key(pdb_files[i + 1])
        /\ Len(renames) = Len(pdb_files)
        /\ \A i \in 1..Len(renames) :
               renames[i] = <<pdb_files[i], new_name(splitext0(repaired_arg), names_arg[i])>>
        /\ \A i, j \in 1..Len(renames) : renames[i][2] = renames[j][2] => i = j
        /\ \A i \in 1..Len(renames) :
               /\ renames[i][2] \in DOMAIN fs
               /\ fs[renames[i][2]] = fs0[pdb_files[i]]

\* C3: with a number of generated files different from the number of
\* mutation codes, the call returns normally, renames nothing, leaves the
\* directory as it was and prints the warning.
C3_MismatchRenamesNothing ==
    (ren_ret # "none" /\ Len(pdb_files) # Len(names_arg)) =>
        /\ ren_ret = "returned"
        /\ renames = <<>>
        /\ fs = fs0
        /\ console = <<Warning>>

\* four generated files and three mutation codes, and the call has returned
C3_Witness ==
    /\ ren_ret = "returned"
    /\ Len(pdb_files) = 4
    /\ Len(names_arg) = 3

-----------------------------------------------------------------------------
(* SpecStab: run_foldx_stability on its own.                               *)

\* names a directory may hold: the input, the repaired structure, two mutants
StabFileNames ==
    {<<"x">> \o sfx \o Ext_pdb :
        sfx \in {<<>>, S_Repair, S_Repair \o <<"_", "E", "A", "7", "A">>,
                 S_Repair \o <<"_", "E", "A", "7", "C">>}}

InitStab ==
    /\ fs \in {Directory(S) : S \in SUBSET StabFileNames}
    /\ console = <<>> /\ tool_calls = <<>>
    /\ stab_pc = "start" /\ base_arg = <<"x">> /\ max_retries \in 0..MaxRetries
    /\ matching_files = <<>> /\ file_i = 0 /\ attempt = 0 /\ success = FALSE
    /\ error_files = <<>> /\ stab_ret = "none" /\ sleeps = 0
    /\ MutIdle /\ RenIdle /\ MainIdle /\ SfIdle

NextStab == run_foldx_stability

SpecStab == InitStab /\ [][NextStab]_vars

-----------------------------------------------------------------------------
(* Claims about run_foldx_stability, checked under SpecStab.               *)

\* the invocations of the stability command for file f, by position
CallsFor(f) ==
    {i \in 1..Len(tool_calls) : tool_calls[i].cmd = "Stability" /\ tool_calls[i].pdb = f}

\* the i-th invocation ended with exit status zero
ZeroExit(i) == ~tool_calls[i].raised /\ tool_calls[i].returncode = 0

\* the structure files matching f"{base_pdb_name}_Repair*.pdb"
StructureFiles == {n \in DOMAIN fs : GlobMatch(n, base_arg \o S_Repair, Ext_pdb)}

\* C4: no file gets more than max_retries invocations, no invocation for a
\* file follows a zero exit status for it, and when the function returns every
\* file was attempted until it succeeded or used up its max_retries attempts.
C4_BoundedRetries ==
    /\ \A f \in Range(matching_files) : Cardinality(CallsFor(f)) <= max_retries
    /\ \A f \in Range(matching_files) : \A i, j \in CallsFor(f) : i < j => ~ZeroExit(i)
    /\ (stab_pc = "done" /\ stab_ret \in {"True", "False"}) =>
           \A f \in Range(matching_files) :
               \/ \E i \in CallsFor(f) : ZeroExit(i)
               \/ Cardinality(CallsFor(f)) = max_retries

\* the first of three files failed all three attempts, and the two files
\* after it were still run, each to a zero exit status
C4_Witness ==
    /\ stab_pc = "done"
    /\ max_retries = 3
    /\ Len(matching_files) = 3
    /\ error_files = <<matching_files[1]>>
    /\ \A k \in 2..3 : \E i \in CallsFor(matching_files[k]) : ZeroExit(i)

\* C5: the function returns True exactly when some file matches and every
\* matching file had an invocation with exit status zero, False exactly when
\* some matching file had none, and None, with no invocation made, exactly
\* when no file matches.
C5_ReturnValue ==
    (stab_pc = "done" /\ stab_ret # "raised") =>
        /\ stab_ret \in {"True", "False", "None"}
        /\ stab_ret = "True" <=>
               /\ StructureFiles # {}
               /\ \A f \in StructureFiles : \E i \in CallsFor(f) : ZeroExit(i)
        /\ stab_ret = "False" <=>
               \E f \in StructureFiles :
                   /\ \A i \in CallsFor(f) : ~ZeroExit(i)
                   /\ Cardinality(CallsFor(f)) = max_retries
        /\ stab_ret = "None" <=> StructureFiles = {}
        /\ stab_ret = "None" => tool_calls = <<>>

\* three files, the function returned True, and one file needed a retry
C5_Witness ==
    /\ stab_pc = "done"
    /\ stab_ret = "True"
    /\ Len(matching_files) = 3
    /\ \E i \in 1..Len(tool_calls) : ~ZeroExit(i)

-----------------------------------------------------------------------------
(* SpecDelta: subtract_fields on its own.                                  *)

\* most lines of a stability file of which every sequence is tried
MaxLines == 2

\* the stability file of the repaired structure and the one of a mutant
RefName == x_Repair \o S_0_ST_fxout
MutantName(code) == x_Repair \o <<"_">> \o code \o S_0_ST_fxout

EA7A == <<"E", "A", "7", "A">>
EA7C == <<"E", "A", "7", "C">>
EA42C == <<"E", "A", "4", "2", "C">>

\* a file whose name holds no mutation code, and one line 144 passes over
NoCodeName == MutantName(<<"1">>)
SkippedName == MutantName(<<"R", "e", "p", "a", "i", "r">>)

\* the lines of the stability files: what kind of line each is and, for a
\* line with a number as its second field, the number in tenths
LineTable ==
    (<<"x", " ", "1", "0", ".", "0", "\n">> :> [kind |-> "number", nan |-> FALSE, v |-> 100])
 @@ (<<"x", " ", "1", "1", ".", "5", "\n">> :> [kind |-> "number", nan |-> FALSE, v |-> 115])
 @@ (<<"z", "\n">> :> [kind |-> "few", nan |-> FALSE, v |-> 0])
 @@ (<<"x", " ", "a", "b", "c", "\n">> :> [kind |-> "text", nan |-> FALSE, v |-> 0])
 @@ (<<"y", " ", "1", "2", ".", "0", "\n">> :> [kind |-> "number", nan |-> FALSE, v |-> 120])
 @@ (<<"y", " ", "9", ".", "0", "\n">> :> [kind |-> "number", nan |-> FALSE, v |-> 90])
 @@ (<<"y", " ", "n", "a", "n", "\n">> :> [kind |-> "number", nan |-> TRUE, v |-> 0])
 @@ (<<"x", " ", "1", "2", ".", "5", "\n">> :> [kind |-> "number", nan |-> FALSE, v |-> 125])
 @@ (<<"e", "\t", "-", "2", ".", "5", "\n">> :> [kind |-> "number", nan |-> FALSE, v |-> -25])

\* the lines of which every sequence up to MaxLines is tried as the reference
\* file and as the mutant file: two numbers, one field only, a word
SfLines == {<<"x", " ", "1", "0", ".", "0", "\n">>, <<"x", " ", "1", "1", ".", "5", "\n">>, <<"z", "\n">>, <<"x", " ", "a", "b", "c", "\n">>}

Texts == {Flatten(q) : q \in SeqsUpTo(SfLines, MaxLines)}

ListText == <<"E", "A", "7", "A", ";", "\n", "E", "A", "7", "C", ";", "\n">>

\* the reference file and the mutant file of the scenario: values 10.0 and
\* 12.0, values 11.5 and 9.0
ScenarioReference == <<"x", " ", "1", "0", ".", "0", "\n", "y", " ", "1", "2", ".", "0", "\n">>
ScenarioMutant == <<"x", " ", "1", "1", ".", "5", "\n", "y", " ", "9", ".", "0", "\n">>

Absent == <<"(absent)">>

\* a directory from the choice made for every name
DirectoryOf(choice) == [n \in {m \in DOMAIN choice : choice[m] # Absent} |-> choice[n]]

\* one mutant file, every text against every text
OneMutant ==
    {(individual_list :> ListText) @@ (RefName :> r) @@ (MutantName(EA7A) :> m) :
        r \in Texts, m \in Texts}

\* up to three mutant files of two positions and the two files that give no
\* row; any of the files, the reference and the list included, may be missing
SeveralMutants ==
    {(individual_list :> l) @@ (RefName :> r) @@ (MutantName(EA7A) :> a)
        @@ (MutantName(EA7C) :> c) @@ (MutantName(EA42C) :> d)
        @@ (NoCodeName :> n) @@ (SkippedName :> s) :
        l \in {Absent, ListText},
        r \in {Absent, ScenarioReference},
        a \in {Absent, ScenarioMutant, <<"x", " ", "1", "1", ".", "5", "\n", "y", " ", "n", "a", "n", "\n">>, <<"x", " ", "a", "b", "c", "\n", "y", " ", "9", ".", "0", "\n">>},
        c \in {Absent, <<"x", " ", "1", "2", ".", "5", "\n", "y", " ", "1", "2", ".", "0", "\n">>},
        d \in {Absent, <<"e", "\t", "-", "2", ".", "5", "\n">>},
        n \in {Absent, <<"x", " ", "1", "1", ".", "5", "\n">>},
        s \in {Absent, <<"x", " ", "1", "1", ".", "5", "\n">>}}

InitDelta ==
    /\ fs \in {DirectoryOf(choice) : choice \in OneMutant \cup SeveralMutants}
    /\ console = <<>> /\ tool_calls = <<>>
    /\ sf_pc = "start" /\ file_pattern = <<"x">> /\ file2_list = <<>>
    /\ individual_lines = <<>> /\ file2_i = 0 /\ results = <<>>
    /\ groups = <<>> /\ final_results = <<>> /\ sf_ret = "none"
    /\ MutIdle /\ RenIdle /\ StabIdle /\ MainIdle

NextDelta == subtract_fields

SpecDelta == InitDelta /\ [][NextDelta]_vars

-----------------------------------------------------------------------------
(* Claims about subtract_fields, checked under SpecDelta.                  *)

\* the mutant files whose names hold a mutation code, with the code and the
\* residue position written in each name
CodedFiles ==
    {[file |-> MutantName(EA7A), code |-> EA7A, position |-> 7],
     [file |-> MutantName(EA7C), code |-> EA7C, position |-> 7],
     [file |-> MutantName(EA42C), code |-> EA42C, position |-> 42]}

\* the names of the directory in the order sorted() gives them
SortedNames ==
    <<NoCodeName, MutantName(EA42C), MutantName(EA7A), MutantName(EA7C), SkippedName>>

\* the lines of a file, and the number of line pairs zip() makes of two files
LinesOf(name) == FileLines(fs[name])
Pairs(name1, name2) ==
    IF Len(LinesOf(name1)) <= Len(LinesOf(name2))
    THEN Len(LinesOf(name1)) ELSE Len(LinesOf(name2))

\* both lines of the i-th pair have a number as their second field
BothNumeric(lines1, lines2, i) ==
    LineTable[lines1[i]].kind = "number" /\ LineTable[lines2[i]].kind = "number"

\* the number of the mutant line minus the number of the reference line
Difference(mutant, reference) ==
    IF mutant.nan \/ reference.nan THEN [nan |-> TRUE, v |-> 0]
    ELSE [nan |-> FALSE, v |-> mutant.v - reference.v]

\* the rows the claim expects of a mutant file: one per pair of lines with two
\* numbers, in the order of the lines
ExpectedRows(c) ==
    LET lines1 == LinesOf(RefName)
        lines2 == LinesOf(c.file)
    IN  Flatten([i \in 1..Pairs(RefName, c.file) |->
                    IF BothNumeric(lines1, lines2, i)
                    THEN << <<c.code, c.file,
                              Difference(LineTable[lines2[i]], LineTable[lines1[i]])>> >>
                    ELSE <<>>])

\* the rows of results that come from the file
RowsOf(file) ==
    Flatten([i \in 1..Len(results) |-> IF results[i][2] = file THEN <<results[i]>> ELSE <<>>])

\* the loop of line 143 is through with the file
Done(file) == \E i \in 1..(file2_i - 1) : file2_list[i] = file

\* C11: once a mutant file is processed, its rows are exactly one row per
\* pair of lines (the i-th line of the reference file with the i-th line of the
\* mutant file) whose second fields are both numbers, in the order of the
\* lines, each with the mutant's number minus the reference's number.
C11_DeltaPerLinePair ==
    \A c \in CodedFiles : Done(c.file) => RowsOf(c.file) = ExpectedRows(c)

\* reference values 10.0 and 12.0, mutant values 11.5 and 9.0: the deltas are
\* 1.5 and -3.0
C11_Witness ==
    /\ sf_pc = "done" /\ sf_ret = "returned"
    /\ RefName \in DOMAIN fs /\ MutantName(EA7A) \in DOMAIN fs
    /\ fs[RefName] = ScenarioReference
    /\ fs[MutantName(EA7A)] = ScenarioMutant
    /\ [i \in 1..Len(RowsOf(MutantName(EA7A))) |-> RowsOf(MutantName(EA7A))[i][3]]
           = <<[nan |-> FALSE, v |-> 15], [nan |-> FALSE, v |-> -30]>>

\* the deltas of lines 153-165 with the two files in each other's place
SwappedDeltas(c) ==
    LET rows == PairLoop(c.code, c.file, LinesOf(c.file), LinesOf(RefName), 1).rows
    IN  [i \in 1..Len(rows) |-> rows[i][3]]

\* C12: for a processed mutant file, the computation with the mutant file as
\* the reference and the reference file as the mutant gives as many deltas,
\* and each is the negation of the delta at the same place.
C12_Antisymmetric ==
    \A c \in CodedFiles : Done(c.file) =>
        LET rows == RowsOf(c.file)
            back == SwappedDeltas(c)
        IN  /\ Len(back) = Len(rows)
            /\ \A i \in 1..Len(rows) :
                   /\ back[i].nan = rows[i][3].nan
                   /\ back[i].v + rows[i][3].v = 0

\* a file with two deltas other than zero, whose swapped deltas are negated
C12_Witness ==
    /\ sf_pc = "done" /\ sf_ret = "returned"
    /\ Done(MutantName(EA7A))
    /\ Len(RowsOf(MutantName(EA7A))) = 2
    /\ \A i \in 1..2 : RowsOf(MutantName(EA7A))[i][3].v # 0
    /\ \A i \in 1..2 : SwappedDeltas([file |-> MutantName(EA7A), code |-> EA7A])[i].v
                           = 0 - RowsOf(MutantName(EA7A))[i][3].v

\* the mutation code of the row is one of the codes of the file names
KnownCode(row) == \E c \in CodedFiles : c.code = row[1]

\* the residue position written in the mutation code of a row, 0 for a code
\* that is not of the form two letters, digits, letter
PositionOf(row) ==
    IF KnownCode(row) THEN (CHOOSE c \in CodedFiles : c.code = row[1]).position ELSE 0

\* how often the row occurs in the list
Count(l, row) == Cardinality({i \in 1..Len(l) : l[i] = row})

\* the function returned after ranking the rows
Ranked_Done == sf_pc = "done" /\ sf_ret = "returned" /\ file2_list # <<>>

\* C13: the ranked output holds every computed row exactly once, rows of a
\* lower position stand before rows of a higher position, and within one
\* position no row has a greater delta than a row above it.
C13_RankedOrder ==
    Ranked_Done =>
        /\ Len(final_results) = Len(results)
        /\ \A i \in 1..Len(results) :
               Count(final_results, results[i]) = Count(results, results[i])
        /\ \A i, j \in 1..Len(final_results) :
               i < j => PositionOf(final_results[i]) <= PositionOf(final_results[j])
        /\ \A i, j \in 1..Len(final_results) :
               (i < j /\ PositionOf(final_results[i]) = PositionOf(final_results[j])) =>
                   ~(/\ ~final_results[i][3].nan
                     /\ ~final_results[j][3].nan
                     /\ final_results[j][3].v > final_results[i][3].v)

\* the messages the claim expects of the line pairs of a mutant file: one for
\* every pair in which a line has a single field or a word as second field
ExpectedMessages(c) ==
    LET lines1 == LinesOf(RefName)
        lines2 == LinesOf(c.file)
    IN  Flatten([i \in 1..Pairs(RefName, c.file) |->
                    IF "few" \in {LineTable[lines1[i]].kind, LineTable[lines2[i]].kind}
                    THEN <<InsufficientFields>>
                    ELSE IF "text" \in {LineTable[lines1[i]].kind, LineTable[lines2[i]].kind}
                    THEN <<NonNumeric>>
                    ELSE <<>>])

\* what the claim expects of the k-th name of the directory: nothing when no
\* such file exists or line 144 passes over it, the warning when its name
\* holds no mutation code, else its rows and messages
ExpectedOf(k) ==
    LET name == SortedNames[k]
    IN  IF name \notin DOMAIN fs \/ name = SkippedName
        THEN [rows |-> <<>>, printed |-> <<>>]
        ELSE IF name = NoCodeName
        THEN [rows |-> <<>>, printed |-> <<NoMutationCode>>]
        ELSE LET c == CHOOSE c \in CodedFiles : c.file = name
             IN  [rows |-> ExpectedRows(c), printed |-> ExpectedMessages(c) \o <<Processed>>]

\* C14: with the mutation list and the reference file in place the function
\* returns normally, whatever the lines and the names are: every pair of lines
\* with a short line or a word for a number gives a warning and no row, every
\* other pair of every mutant file gives its row, and a file without a
\* mutation code in its name gives a warning and the files after it are
\* processed.
C14_ShapeMismatchSkipped ==
    (sf_pc = "done" /\ individual_list \in DOMAIN fs /\ RefName \in DOMAIN fs) =>
        /\ sf_ret = "returned"
        /\ results = Flatten([k \in 1..Len(SortedNames) |-> ExpectedOf(k).rows])
        /\ console =
               IF \A k \in 1..Len(SortedNames) : SortedNames[k] \notin DOMAIN fs
               THEN <<"No files found matching the pattern">>
               ELSE Flatten([k \in 1..Len(SortedNames) |-> ExpectedOf(k).printed])
                        \o <<"All results written", "DDG calculations completed">>

\* a file without a mutation code, then a mutant file whose first pair has a
\* word for a number and whose second pair gives a row, then another mutant
\* file with two rows
C14_Witness ==
    /\ sf_pc = "done" /\ sf_ret = "returned"
    /\ NoCodeName \in DOMAIN fs
    /\ NoMutationCode \in Range(console)
    /\ NonNumeric \in Range(console)
    /\ Len(RowsOf(MutantName(EA7A))) = 1
    /\ Len(RowsOf(MutantName(EA7C))) = 2

\* the rows of results the claim expects in the group of position p
RowsAt(p) ==
    Flatten([i \in 1..Len(results) |->
                IF PositionOf(results[i]) = p THEN <<results[i]>> ELSE <<>>])

-----------------------------------------------------------------------------
(* Spec: a run of the script.                                              *)

\* --pdb_file: the input in the working directory, the same name under a
\* directory (no such file exists), a name with another extension, a name
\* of no file
PdbArgs ==
    {<<"x">> \o Ext_pdb, <<"d", "/", "x">> \o Ext_pdb,
     <<"x", ".", "t", "x", "t">>, <<"y">> \o Ext_pdb}

\* --residues: two specifiers main accepts (E is a letter of amino_acids, X is
\* not), and three it rejects
ResidueArgs ==
    {<<"A", ":", "7", ":", "E">>, <<"A", ":", "7", ":", "X">>, <<"A", ":", "7">>,
     <<"A", ":", "7", ":", "E", "E">>, <<"A", ":", "7", ":", "1">>}

\* what the working directory may hold at the start: the input, and the
\* repaired structure and the stability output of a renamed mutant, both left
\* by an earlier run
MainFileNames ==
    {<<"x">> \o Ext_pdb, <<"x">> \o S_Repair \o Ext_pdb,
     <<"x">> \o S_Repair \o <<"_", "E", "A", "7", "A">> \o S_0_ST_fxout}

Init ==
    /\ fs \in {Directory(S) : S \in SUBSET MainFileNames}
    /\ console = <<>> /\ tool_calls = <<>>
    /\ argv_pdb \in PdbArgs
    /\ argv_residues \in SeqsUpTo(ResidueArgs, MaxArgs) \ {<<>>}
    /\ main_pc = "validate" /\ started = <<>> /\ returned = <<>> /\ exit_status = -1
    /\ MutIdle /\ RenIdle /\ StabIdle /\ SfIdle

Next ==
    \/ main
    \/ make_mutation_list
    \/ get_mutation_names
    \/ rename_pdb_files
    \/ run_foldx_stability

Spec == Init /\ [][Next]_vars

-----------------------------------------------------------------------------
(* Claims about main, checked under Spec.                                  *)

StepOrder == <<"repair", "mutlist", "build", "stability", "ddg">>

\* the process has ended
Ended == main_pc \in {"exited", "finished"}

\* C6: the steps start in the order repair, mutation list, model building,
\* stability, delta ranking, none twice and none skipped, and a step starts
\* only when every step before it has returned.
C6_FixedOrder ==
    /\ Len(started) <= Len(StepOrder)
    /\ \A k \in 1..Len(started) : started[k] = StepOrder[k]
    /\ Len(returned) <= Len(started)
    /\ \A k \in 1..Len(returned) : returned[k] = StepOrder[k]
    /\ Len(returned) >= Len(started) - 1

\* a run in which all five steps started and returned
C6_Witness ==
    /\ main_pc = "finished"
    /\ started = StepOrder
    /\ returned = StepOrder

\* the external tool exited with a status other than zero in the i-th invocation
NonZeroExit(i) == ~tool_calls[i].raised /\ tool_calls[i].returncode # 0

\* C7: after RepairPDB or BuildModel exits with a non-zero status no later
\* step starts, and the process ends with a non-zero exit status.
C7_ToolFailureFatal ==
    \A i \in 1..Len(tool_calls) :
        /\ (tool_calls[i].cmd = "RepairPDB" /\ NonZeroExit(i)) =>
               /\ started = <<"repair">>
               /\ Ended => exit_status # 0
        /\ (tool_calls[i].cmd = "BuildModel" /\ NonZeroExit(i)) =>
               /\ started = <<"repair", "mutlist", "build">>
               /\ Ended => exit_status # 0

\* an exception was raised inside the step: by subprocess.run in any step, by
\* repair_pdb for the missing repaired file (line 29), by make_mutation_list
\* (line 47), by os.rename, or by open(file1) in subtract_fields (line 152)
RaisedIn(step) ==
    \/ \E i \in 1..Len(tool_calls) :
          /\ tool_calls[i].raised
          /\ tool_calls[i].cmd = CASE step = "repair" -> "RepairPDB"
                                   [] step = "build" -> "BuildModel"
                                   [] step = "stability" -> "Stability"
                                   [] OTHER -> "none"
    \/ step = "repair" /\ "repair" \in Range(started) /\ repaired_pdb \notin DOMAIN fs
    \/ step = "mutlist" /\ mut_ret = "raised"
    \/ step = "build" /\ ren_ret = "raised"
    \/ /\ step = "ddg" /\ "ddg" \in Range(started)
       /\ (base_pdb_name \o S_Repair_0_ST_fxout) \notin DOMAIN fs
       /\ \E n \in DOMAIN fs :
             /\ GlobMatch(n, base_pdb_name \o S_Repair \o <<"_">>, S_0_ST_fxout)
             /\ HasMutationCode(n)

\* the position of main while the step runs
Inside(step) ==
    CASE step = "mutlist"   -> {"in_mutlist"}
      [] step = "build"     -> {"in_build_names", "in_build_rename"}
      [] step = "stability" -> {"in_stability"}
      [] OTHER              -> {}

\* C8: once an exception is raised inside a step, that step stays the last
\* one started, the run never finishes normally, and the process ends by
\* printing the error and exiting with status 1.
C8_ExceptionAborts ==
    \A k \in 1..Len(StepOrder) :
        RaisedIn(StepOrder[k]) =>
            /\ Len(started) = k
            /\ main_pc \in Inside(StepOrder[k]) \cup {"exited"}
            /\ main_pc = "exited" =>
                   /\ exit_status = 1
                   /\ console[Len(console)] = "Critical error"

\* the fifth step raised (the reference stability file is missing) and the
\* process exited with status 1
C8_Witness ==
    /\ RaisedIn("ddg")
    /\ main_pc = "exited"
    /\ exit_status = 1

\* C16: once the repair step has run, the repaired structure file exists or
\* FileNotFoundError was raised: without the file the process has ended with
\* the handler's message and status 1 and the repair step has not returned,
\* and no later step starts unless the file exists.
C16_RepairedFileExists ==
    /\ ("repair" \in Range(started) /\ repaired_pdb \notin DOMAIN fs) =>
           /\ started = <<"repair">>
           /\ returned = <<>>
           /\ main_pc = "exited"
           /\ exit_status = 1
           /\ console[Len(console)] = "Critical error"
    /\ "repair" \in Range(returned) => repaired_pdb \in DOMAIN fs
    /\ Len(started) >= 2 => repaired_pdb \in DOMAIN fs

\* RepairPDB ended with exit status 0 and left no repaired file: the process
\* exited with status 1 after the repair step
C16_Witness ==
    /\ Len(tool_calls) = 1
    /\ tool_calls[1].cmd = "RepairPDB"
    /\ ~tool_calls[1].raised /\ tool_calls[1].returncode = 0
    /\ repaired_pdb \notin DOMAIN fs
    /\ started = <<"repair">>
    /\ main_pc = "exited" /\ exit_status = 1

FailedReport == "The following files failed stability calculation after retries:"

\* C17: when run_foldx_stability has returned False, the failing files were
\* reported, the run goes on to the delta ranking, and the process does not
\* end before the delta ranking was started (it ends early only when the
\* delta ranking itself raises).
C17_FailedStabilityContinues ==
    (stab_pc = "done" /\ stab_ret = "False") =>
        /\ error_files # <<>>
        /\ FailedReport \in Range(console)
        /\ main_pc \in {"in_stability", "ddg"} \/ started = StepOrder
        /\ main_pc = "exited" => RaisedIn("ddg")
        /\ main_pc = "finished" => exit_status = 0

\* a run in which a file failed all its stability attempts and all five
\* steps started and returned
C17_Witness ==
    /\ stab_ret = "False"
    /\ main_pc = "finished"
    /\ started = StepOrder
    /\ returned = StepOrder
    /\ exit_status = 0

\* C9: when the file named by --pdb_file does not exist, or its extension is
\* not .pdb, or a residue specifier is malformed, the process exits with a
\* non-zero status before any step: the external tool is never invoked and
\* the mutation list is never written.
C9_ValidationFirst ==
    (\/ argv_pdb \notin DOMAIN fs
     \/ splitext1(argv_pdb) # Ext_pdb
     \/ \E i \in 1..Len(argv_residues) : ~ValidResidue(argv_residues[i])) =>
        /\ main_pc \in {"validate", "exited"}
        /\ main_pc = "exited" => exit_status # 0
        /\ tool_calls = <<>>
        /\ individual_list \notin DOMAIN fs

====
